---- MODULE Spec2Model ----
(***************************************************************************)
(* The request pipeline of the Vortex Express SDK: the nine route          *)
(* handlers (method check, input validation, configuration, identity       *)
(* resolution, access gate, external client call, response), for one       *)
(* request at a time.  Both copies of the invitation handlers found in     *)
(* the repository are modelled: src/unnamed/part_002 and                   *)
(* src/src/handlers/invitations.ts.                                        *)
(***************************************************************************)
EXTENDS Integers, Sequences, FiniteSets, TLC

\* Longest invitationIds array drawn for a request body.
MaxIds == 2

\* .substring(0, 1000) in sanitizeInput.
SanitizeMaxLength == 1000

-----------------------------------------------------------------------------
(* JavaScript values.  A string is a sequence of one-character strings.    *)

Undefined == [t |-> "undefined"]
Num == [t |-> "number"]
Bool(b) == [t |-> "boolean", v |-> b]
Str(s) == [t |-> "string", v |-> s]
Arr(items) == [t |-> "array", v |-> items]
TargetObj(type, value) == [t |-> "object", type |-> type, value |-> value]
UserObj(email, phone, name) == [t |-> "object", email |-> email, phone |-> phone, name |-> name]

\* What a call that throws yields: the thrown Error's message.
Thrown(m) == [t |-> "thrown", isError |-> TRUE, message |-> m]
\* A thrown value that is no Error.
ThrownValue == [t |-> "thrown", isError |-> FALSE, message |-> "none"]
IsThrown(x) == x.t = "thrown"
TypeError == Thrown("input.trim is not a function")

\* JavaScript truthiness of the values above (!x is ~Truthy(x)).
Truthy(x) ==
  CASE x.t = "undefined" -> FALSE
    [] x.t = "boolean" -> x.v
    [] x.t = "string" -> x.v # <<>>
    [] OTHER -> TRUE

\* a || b
OrElse(a, b) == IF Truthy(a) THEN a ELSE b

IsString(x) == x.t = "string"
IsArray(x) == x.t = "array"

-----------------------------------------------------------------------------
(* utils: sanitizeInput and the parameter readers.                         *)

XssChars == {"<", ">", "'", "\""}
Whitespace == {" "}

RECURSIVE TrimStart(_)
TrimStart(s) == IF s # <<>> /\ Head(s) \in Whitespace THEN TrimStart(Tail(s)) ELSE s

RECURSIVE TrimEnd(_)
TrimEnd(s) ==
  IF s # <<>> /\ s[Len(s)] \in Whitespace THEN TrimEnd(SubSeq(s, 1, Len(s) - 1)) ELSE s

\* String.prototype.trim
Trim(s) == TrimEnd(TrimStart(s))

\* .replace(/[<>'"]/g, '')
StripXss(s) == SelectSeq(s, LAMBDA c : c \notin XssChars)

\* .substring(0, n)
Substring0(s, n) == SubSeq(s, 1, IF Len(s) < n THEN Len(s) ELSE n)

sanitizeInput(input) ==
  IF ~Truthy(input) THEN Undefined
  ELSE IF ~IsString(input) THEN TypeError
  ELSE Str(Substring0(StripXss(Trim(input.v)), SanitizeMaxLength))

getRouteParam(request, param) ==
  IF IsString(request[param]) THEN request[param] ELSE Undefined

getQueryParam(request, param) ==
  IF IsString(request[param]) THEN request[param] ELSE Undefined

\* createErrorResponse(res, message, status) and createApiResponse(res, data)
createErrorResponse(message, status) ==
  [e |-> "response", status |-> status, body |-> [error |-> message]]

createApiResponse(data) == [e |-> "response", status |-> 200, body |-> data]

-----------------------------------------------------------------------------
(* Operations, configuration and the fixed tables of the handlers.         *)

Part002 == "src/unnamed/part_002"
InvitationsTs == "src/src/handlers/invitations.ts"
JwtTs == "src/src/handlers/jwt.ts"

JwtOp == "handleJwtGeneration"
ByTargetOp == "handleGetInvitationsByTarget"
GetOp == "handleGetInvitation"
RevokeOp == "handleRevokeInvitation"
AcceptOp == "handleAcceptInvitations"
ByGroupOp == "handleGetInvitationsByGroup"
DeleteByGroupOp == "handleDeleteInvitationsByGroup"
SyncOp == "handleSyncInternalInvitation"
ReinviteOp == "handleReinvite"

InvitationOps ==
  {ByTargetOp, GetOp, RevokeOp, AcceptOp, ByGroupOp, DeleteByGroupOp, SyncOp, ReinviteOp}

\* The handlers each file exports.
HandlersOf(file) ==
  CASE file = JwtTs -> {JwtOp}
    [] file = Part002 -> InvitationOps
    [] file = InvitationsTs -> InvitationOps \ {SyncOp}

\* if (req.method !== ...) in each handler.
ExpectedMethod(operation) ==
  CASE operation \in {JwtOp, AcceptOp, SyncOp, ReinviteOp} -> "POST"
    [] operation \in {ByTargetOp, GetOp, ByGroupOp} -> "GET"
    [] operation \in {RevokeOp, DeleteByGroupOp} -> "DELETE"

\* The configuration property each handler reads for its predicate: config.canX.
PredicateKey(operation) ==
  CASE operation = ByTargetOp -> "canAccessInvitationsByTarget"
    [] operation = GetOp -> "canAccessInvitation"
    [] operation = RevokeOp -> "canDeleteInvitation"
    [] operation = AcceptOp -> "canAcceptInvitations"
    [] operation = ByGroupOp -> "canAccessInvitationsByGroup"
    [] operation = DeleteByGroupOp -> "canDeleteInvitationsByGroup"
    [] operation = SyncOp -> "canSyncInternalInvitation"
    [] operation = ReinviteOp -> "canReinvite"
    [] operation = JwtOp -> "none"

\* The method of the external client each handler calls.
ClientMethod(operation) ==
  CASE operation = ByTargetOp -> "getInvitationsByTarget"
    [] operation = GetOp -> "getInvitation"
    [] operation = RevokeOp -> "revokeInvitation"
    [] operation = AcceptOp -> "acceptInvitations"
    [] operation = ByGroupOp -> "getInvitationsByGroup"
    [] operation = DeleteByGroupOp -> "deleteInvitationsByGroup"
    [] operation = SyncOp -> "syncInternalInvitation"
    [] operation = ReinviteOp -> "reinvite"
    [] operation = JwtOp -> "generateJwt"

\* Properties a configuration object may carry besides apiKey and
\* authenticateUser: the eight predicates the handlers read, and the nested
\* `accessControl` object of the integration guide
\* (canGetJwt, canAcceptInvitation, canGetInvitation, canRevokeInvitation).
PredicateKeys == {PredicateKey(o) : o \in InvitationOps}
AccessControl == "accessControl"
HookKeys == PredicateKeys \cup {AccessControl}

\* config.<key> is set
Configured(cfg, key) == key \in cfg.hooks

MethodNotAllowed == "Method not allowed"
GenericError == "An error occurred while processing your request"
JwtGenericError == "An error occurred"
AccessDenied == "Access denied"
ConfigureHooks == "Access denied. Configure access control hooks for invitation endpoints."
Unauthorized == "Unauthorized"
JwtNeedsAuthentication ==
  "JWT generation requires authentication configuration. Please configure authenticateUser hook."
InvalidUserFormat == "Invalid user format: must provide userId and userEmail"

\* What a step of a handler decides: answer now, or go on with `data`.
Respond(response) == [k |-> "respond", response |-> response]
Continue(data) == [k |-> "continue", data |-> data]

\* The catch block of the invitation handlers.
Caught == Respond(createErrorResponse(GenericError, 500))

\* The strings of the enumerations.
EMAIL == <<"e", "m", "a", "i", "l">>
USERNAME == <<"u", "s", "e", "r", "n", "a", "m", "e">>
PHONENUMBER == <<"p", "h", "o", "n", "e", "N", "u", "m", "b", "e", "r">>
PHONE == <<"p", "h", "o", "n", "e">>
ACCEPTED == <<"a", "c", "c", "e", "p", "t", "e", "d">>
DECLINED == <<"d", "e", "c", "l", "i", "n", "e", "d">>

\* ['email', 'username', 'phoneNumber'(, 'phone')].includes(x)
TargetTypes(file) ==
  IF file = Part002 THEN {Str(EMAIL), Str(USERNAME), Str(PHONENUMBER), Str(PHONE)}
  ELSE {Str(EMAIL), Str(USERNAME), Str(PHONENUMBER)}
QueryTargetTypes == {Str(EMAIL), Str(USERNAME), Str(PHONENUMBER)}
SyncActions == {Str(ACCEPTED), Str(DECLINED)}

-----------------------------------------------------------------------------
(* The synchronous part of each handler before `await getVortexConfig()`:  *)
(* Respond(...) when the handler answers there, Continue(resource) with    *)
(* the resource descriptor it later hands to its predicate otherwise.      *)

\* handleGetInvitation, handleRevokeInvitation, handleReinvite
ValidateInvitationId(request) ==
  LET sanitizedId == sanitizeInput(getRouteParam(request, "invitationId"))
  IN IF ~Truthy(sanitizedId)
     THEN Respond(createErrorResponse("Invalid invitation ID", 400))
     ELSE Continue([invitationId |-> sanitizedId])

\* handleGetInvitationsByGroup, handleDeleteInvitationsByGroup
ValidateGroup(request) ==
  LET sanitizedGroupType == sanitizeInput(getRouteParam(request, "groupType"))
      sanitizedGroupId == sanitizeInput(getRouteParam(request, "groupId"))
  IN IF ~Truthy(sanitizedGroupType) \/ ~Truthy(sanitizedGroupId)
     THEN Respond(createErrorResponse("Invalid group parameters", 400))
     ELSE Continue([groupType |-> sanitizedGroupType, groupId |-> sanitizedGroupId])

\* invitationIds.map((id) => sanitizeInput(id))
MapSanitize(items) == [i \in 1..Len(items) |-> sanitizeInput(items[i])]

\* .filter((id) => Boolean(id))
FilterTruthy(items) == SelectSeq(items, Truthy)

\* const sanitizedIds = invitationIds.map(...).filter(...)
SanitizedIds(invitationIds) == FilterTruthy(MapSanitize(invitationIds.v))

\* Some sanitizeInput(id) of the map throws (an element that is no string).
MapThrows(invitationIds) ==
  \E i \in 1..Len(invitationIds.v) : IsThrown(sanitizeInput(invitationIds.v[i]))

\* x ? sanitizeInput(x) : undefined
SanitizeIfSet(x) == IF Truthy(x) THEN sanitizeInput(x) ELSE Undefined

\* acceptData of the `user` branch (part_002).
UserAcceptData(userObj) ==
  [email |-> SanitizeIfSet(userObj.email),
   phone |-> SanitizeIfSet(userObj.phone),
   name |-> SanitizeIfSet(userObj.name)]

\* Faulty variant of TargetValue: the target's value handed on as received.
TargetValueRaw(value) == value

\* value: sanitizeInput(targetObj.value) || targetObj.value
TargetValue(value) == OrElse(sanitizeInput(value), value)

\* acceptData of the `target` branch; the second argument of acceptInvitations
\* in invitations.ts.
TargetAcceptData(targetObj) ==
  [type |-> targetObj.type, value |-> TargetValue(targetObj.value)]

\* The target checks shared by both copies of handleAcceptInvitations.
ValidateTarget(file, targetObj, onValid) ==
  IF ~Truthy(targetObj.type) \/ ~Truthy(targetObj.value)
  THEN Respond(createErrorResponse("target must have type and value properties", 400))
  ELSE IF targetObj.type \notin TargetTypes(file)
  THEN Respond(createErrorResponse(
         IF file = Part002
         THEN "target.type must be email, username, phoneNumber, or phone"
         ELSE "target.type must be email, username, or phoneNumber", 400))
  ELSE onValid

\* The invitationIds checks shared by both copies of handleAcceptInvitations.
ValidateIds(invitationIds, onValid) ==
  IF ~IsArray(invitationIds) \/ Len(invitationIds.v) = 0
  THEN Respond(createErrorResponse("invitationIds must be a non-empty array", 400))
  ELSE IF MapThrows(invitationIds) THEN Caught
  ELSE IF Len(SanitizedIds(invitationIds)) # Len(invitationIds.v)
  THEN Respond(createErrorResponse("Invalid invitation IDs provided", 400))
  ELSE onValid

\* handleAcceptInvitations of part_002, up to acceptData.
ValidateAccept(request) ==
  IF ~Truthy(request.body) THEN Caught  \* parseRequestBody throws
  ELSE
    LET invitationIds == request.body.invitationIds
        target == request.body.target
        user == request.body.user
        acceptData == IF Truthy(user) THEN UserAcceptData(user) ELSE TargetAcceptData(target)
        resource == [invitationIds |-> Arr(SanitizedIds(invitationIds)),
                     target |-> target, user |-> user]
    IN ValidateIds(invitationIds,
         IF ~Truthy(user) /\ ~Truthy(target)
         THEN Respond(createErrorResponse("Either user or target must be provided", 400))
         ELSE IF Truthy(user)
         THEN IF ~Truthy(user.email) /\ ~Truthy(user.phone)
              THEN Respond(createErrorResponse("user must have either email or phone", 400))
              ELSE IF \E x \in {acceptData.email, acceptData.phone, acceptData.name} : IsThrown(x)
              THEN Caught
              ELSE Continue(resource)
         ELSE ValidateTarget(Part002, target,
                IF IsThrown(acceptData.value) THEN Caught ELSE Continue(resource)))

\* validateRequiredFields(data, fields): the fields that are missing.
MissingFields(data, fields) == {field \in fields : ~Truthy(data[field])}

\* handleAcceptInvitations of invitations.ts, up to validatedTarget.
ValidateAcceptLegacy(request) ==
  IF ~Truthy(request.body) THEN Caught  \* parseRequestBody throws
  ELSE IF MissingFields(request.body, {"invitationIds", "target"}) # {}
  THEN Caught  \* validateRequiredFields throws
  ELSE
    LET invitationIds == request.body.invitationIds
        target == request.body.target
    IN ValidateIds(invitationIds,
         ValidateTarget(InvitationsTs, target,
           Continue([invitationIds |-> Arr(SanitizedIds(invitationIds)),
                     target |-> TargetObj(target.type, target.value)])))

\* handleSyncInternalInvitation, up to the predicate's resource.
ValidateSync(request) ==
  IF ~Truthy(request.body) THEN Caught  \* parseRequestBody throws
  ELSE
    LET creatorId == request.body.creatorId
        targetValue == request.body.targetValue
        action == request.body.action
        componentId == request.body.componentId
    IN IF ~Truthy(creatorId) \/ ~IsString(creatorId)
       THEN Respond(createErrorResponse("creatorId is required and must be a string", 400))
       ELSE IF ~Truthy(targetValue) \/ ~IsString(targetValue)
       THEN Respond(createErrorResponse("targetValue is required and must be a string", 400))
       ELSE IF ~Truthy(action) \/ action \notin SyncActions
       THEN Respond(createErrorResponse(
              "action is required and must be \"accepted\" or \"declined\"", 400))
       ELSE IF ~Truthy(componentId) \/ ~IsString(componentId)
       THEN Respond(createErrorResponse("componentId is required and must be a string", 400))
       ELSE Continue([creatorId |-> sanitizeInput(creatorId),
                      targetValue |-> sanitizeInput(targetValue),
                      action |-> action,
                      componentId |-> sanitizeInput(componentId)])

\* Faulty variant of BeforeConfig: the body of an accept or sync request read
\* before the method is looked at.
BeforeConfigBodyFirst(file, operation, request) ==
  IF operation \in {AcceptOp, SyncOp} /\ ~Truthy(request.body)
  THEN Caught
  ELSE IF request.method # ExpectedMethod(operation)
  THEN Respond(createErrorResponse(MethodNotAllowed, 405))
  ELSE CASE operation \in {GetOp, RevokeOp, ReinviteOp} -> ValidateInvitationId(request)
         [] operation \in {ByGroupOp, DeleteByGroupOp} -> ValidateGroup(request)
         [] operation = AcceptOp ->
              IF file = Part002 THEN ValidateAccept(request) ELSE ValidateAcceptLegacy(request)
         [] operation = SyncOp -> ValidateSync(request)
         [] OTHER -> Continue(Undefined)

\* The handler from its method check to `await getVortexConfig()`.
BeforeConfig(file, operation, request) ==
  IF request.method # ExpectedMethod(operation)
  THEN Respond(createErrorResponse(MethodNotAllowed, 405))
  ELSE CASE operation \in {GetOp, RevokeOp, ReinviteOp} -> ValidateInvitationId(request)
         [] operation \in {ByGroupOp, DeleteByGroupOp} -> ValidateGroup(request)
         [] operation = AcceptOp ->
              IF file = Part002 THEN ValidateAccept(request) ELSE ValidateAcceptLegacy(request)
         [] operation = SyncOp -> ValidateSync(request)
         [] OTHER -> Continue(Undefined)  \* handleGetInvitationsByTarget, handleJwtGeneration

-----------------------------------------------------------------------------
(* From the access gate to the call of the external client:                *)
(* Respond(...) when the handler answers before calling, Continue(args)    *)
(* with the arguments of the client method otherwise.                      *)

\* handleGetInvitationsByTarget validates its query after the gate.
ByTargetArgs(request) ==
  LET targetType == sanitizeInput(getQueryParam(request, "targetType"))
      targetValue == sanitizeInput(getQueryParam(request, "targetValue"))
  IN IF ~Truthy(targetType) \/ ~Truthy(targetValue)
     THEN Respond(createErrorResponse(
            "targetType and targetValue query parameters are required", 400))
     ELSE IF targetType \notin QueryTargetTypes
     THEN Respond(createErrorResponse(
            "targetType must be email, username, or phoneNumber", 400))
     ELSE Continue(<<targetType, targetValue>>)

\* vortex.acceptInvitations(sanitizedIds, acceptData) of part_002.
AcceptArgs(request) ==
  LET user == request.body.user
  IN Continue(<<Arr(SanitizedIds(request.body.invitationIds)),
                IF Truthy(user) THEN UserAcceptData(user)
                ELSE TargetAcceptData(request.body.target)>>)

\* vortex.acceptInvitations(sanitizedIds, {type, value: sanitizeInput(value) || value})
\* of invitations.ts: the value is sanitised here, after the gate.
AcceptLegacyArgs(request) ==
  LET acceptData == TargetAcceptData(request.body.target)
  IN IF IsThrown(acceptData.value) THEN Caught
     ELSE Continue(<<Arr(SanitizedIds(request.body.invitationIds)), acceptData>>)

SyncArgs(request) ==
  Continue(<<[creatorId |-> sanitizeInput(request.body.creatorId),
              targetValue |-> sanitizeInput(request.body.targetValue),
              action |-> request.body.action,
              componentId |-> sanitizeInput(request.body.componentId)]>>)

AfterGate(file, operation, request) ==
  CASE operation = ByTargetOp -> ByTargetArgs(request)
    [] operation \in {GetOp, RevokeOp, ReinviteOp} ->
         Continue(<<sanitizeInput(getRouteParam(request, "invitationId"))>>)
    [] operation \in {ByGroupOp, DeleteByGroupOp} ->
         Continue(<<sanitizeInput(getRouteParam(request, "groupType")),
                    sanitizeInput(getRouteParam(request, "groupId"))>>)
    [] operation = AcceptOp ->
         IF file = Part002 THEN AcceptArgs(request) ELSE AcceptLegacyArgs(request)
    [] operation = SyncOp -> SyncArgs(request)

\* Faulty variant of SuccessBody: the client's result as the body of every
\* handler's response.
SuccessBodyAsIs(operation, result) == result

\* The body of the 200 response, from what the client returned.
SuccessBody(operation, result) ==
  CASE operation \in {ByTargetOp, ByGroupOp} -> [invitations |-> result]
    [] operation \in {RevokeOp, DeleteByGroupOp} -> [success |-> TRUE]
    [] OTHER -> result

\* jwtParams of handleJwtGeneration: `id` and `email`, and each optional
\* property only when the identity carries it (non-empty for the lists).
NonEmptyList(x) == IF Truthy(x) /\ Len(x.v) > 0 THEN x ELSE Undefined
JwtParams(authenticatedUser) ==
  [user |-> [id |-> authenticatedUser.userId,
             email |-> authenticatedUser.userEmail,
             userName |-> OrElse(authenticatedUser.userName, Undefined),
             userAvatarUrl |-> OrElse(authenticatedUser.userAvatarUrl, Undefined),
             adminScopes |-> NonEmptyList(authenticatedUser.adminScopes),
             allowedEmailDomains |-> NonEmptyList(authenticatedUser.allowedEmailDomains)],
   attributes |-> OrElse(authenticatedUser.attributes, Undefined)]

\* if (!authenticatedUser.userId || !authenticatedUser.userEmail)
ValidJwtUser(authenticatedUser) ==
  Truthy(authenticatedUser.userId) /\ Truthy(authenticatedUser.userEmail)

\* Faulty variants of FallbackAllows: the `else if (!user)` branch left out; an
\* admin scope demanded of the identity.
FallbackAllowsAnyone(user) == TRUE
FallbackAllowsAdminsOnly(user) ==
  IF Truthy(user) THEN Truthy(user.adminScopes) ELSE FALSE

\* The access gate once no predicate is configured: `else if (!user)`.
FallbackAllows(user) == Truthy(user)

\* const message = error instanceof Error ? error.message : 'An error occurred'
JwtCaught(thrown) ==
  Respond(createErrorResponse(
    IF thrown.isError THEN thrown.message ELSE JwtGenericError, 500))

-----------------------------------------------------------------------------
(* The inputs the model draws: requests, configurations, and what the      *)
(* host's hooks and the external client may answer.                        *)

Methods == {"GET", "POST", "DELETE"}

\* Route and query parameters: absent, "", "a", " ", " b<".
ParamValues ==
  {Undefined, Str(<<>>), Str(<<"a">>), Str(<<" ">>), Str(<<" ", "b", "<">>)}

PIGEON == <<"p", "i", "g", "e", "o", "n">>
TargetTypeValues ==
  {Undefined, Str(EMAIL), Str(<<" ">> \o EMAIL), Str(PHONE), Str(PIGEON)}
TargetValueValues == {Undefined, Str(<<"a">>), Str(<<" ", "b", "<">>), Str(<<"<">>)}

\* Elements of an invitationIds array.
IdValues == {Str(<<"a">>), Str(<<" ">>), Str(<<" ", "b", "<">>), Num}
IdArrays == UNION {[1..n -> IdValues] : n \in 0..MaxIds}
InvitationIdsValues == {Undefined, Str(<<"a">>)} \cup {Arr(a) : a \in IdArrays}

TargetValues ==
  {Undefined,
   TargetObj(Str(EMAIL), Str(<<"a">>)),
   TargetObj(Str(EMAIL), Str(<<" ", "b", "<">>)),
   TargetObj(Str(EMAIL), Str(<<"<">>)),
   TargetObj(Str(EMAIL), Num),
   TargetObj(Str(EMAIL), Undefined),
   TargetObj(Str(PHONE), Str(<<"a">>)),
   TargetObj(Str(PIGEON), Str(<<"a">>)),
   TargetObj(Undefined, Str(<<"a">>))}

UserValues ==
  {Undefined,
   UserObj(Str(<<"a">>), Undefined, Undefined),
   UserObj(Undefined, Str(<<" ", "b", "<">>), Str(<<"n">>)),
   UserObj(Str(<<"<">>), Str(<<"a">>), Str(<<" ">>)),
   UserObj(Undefined, Undefined, Str(<<"n">>)),
   UserObj(Num, Undefined, Undefined)}

AcceptBodies ==
  {Undefined} \cup
  {[t |-> "object", invitationIds |-> ids, target |-> target, user |-> user] :
     ids \in InvitationIdsValues, target \in TargetValues, user \in UserValues}

SyncFieldValues == {Undefined, Num, Str(<<"a">>), Str(<<" ", "<">>)}
SyncActionValues == {Undefined, Str(ACCEPTED), Str(DECLINED), Str(PIGEON)}
SyncBodies ==
  {Undefined} \cup
  {[t |-> "object", creatorId |-> c, targetValue |-> v, action |-> a, componentId |-> k] :
     c \in SyncFieldValues, v \in {Undefined, Str(<<"a">>), Str(<<" ", "<">>)},
     a \in SyncActionValues, k \in {Undefined, Str(<<"a">>), Str(<<" ", "<">>)}}

EmptyInput ==
  [invitationId |-> Undefined, groupType |-> Undefined, groupId |-> Undefined,
   targetType |-> Undefined, targetValue |-> Undefined, body |-> Undefined]

\* The inputs drawn for each handler: only the fields it reads vary.
Inputs(operation) ==
  CASE operation \in {GetOp, RevokeOp, ReinviteOp} ->
         {[EmptyInput EXCEPT !.invitationId = id] : id \in ParamValues}
    [] operation \in {ByGroupOp, DeleteByGroupOp} ->
         {[EmptyInput EXCEPT !.groupType = gt, !.groupId = gid] :
            gt \in ParamValues, gid \in ParamValues}
    [] operation = ByTargetOp ->
         {[EmptyInput EXCEPT !.targetType = tt, !.targetValue = tv] :
            tt \in TargetTypeValues, tv \in TargetValueValues}
    [] operation = AcceptOp -> {[EmptyInput EXCEPT !.body = b] : b \in AcceptBodies}
    [] operation = SyncOp -> {[EmptyInput EXCEPT !.body = b] : b \in SyncBodies}
    [] operation = JwtOp -> {EmptyInput}

\* One input that passes the handler's validation; requests with another
\* method than the handler's are drawn with this input or with the empty one.
ValidInput(operation) ==
  CASE operation \in {GetOp, RevokeOp, ReinviteOp} ->
         [EmptyInput EXCEPT !.invitationId = Str(<<"a">>)]
    [] operation \in {ByGroupOp, DeleteByGroupOp} ->
         [EmptyInput EXCEPT !.groupType = Str(<<"a">>), !.groupId = Str(<<"a">>)]
    [] operation = ByTargetOp ->
         [EmptyInput EXCEPT !.targetType = Str(EMAIL), !.targetValue = Str(<<"a">>)]
    [] operation = AcceptOp ->
         [EmptyInput EXCEPT !.body =
            [t |-> "object", invitationIds |-> Arr(<<Str(<<"a">>)>>),
             target |-> TargetObj(Str(EMAIL), Str(<<"a">>)), user |-> Undefined]]
    [] operation = SyncOp ->
         [EmptyInput EXCEPT !.body =
            [t |-> "object", creatorId |-> Str(<<"a">>), targetValue |-> Str(<<"a">>),
             action |-> Str(ACCEPTED), componentId |-> Str(<<"a">>)]]
    [] operation = JwtOp -> EmptyInput

Requests(operation) ==
  {[method |-> ExpectedMethod(operation)] @@ i : i \in Inputs(operation)} \cup
  {[method |-> m] @@ i : m \in Methods, i \in {EmptyInput, ValidInput(operation)}}

\* Configurations: apiKey, whether authenticateUser is set, and which of the
\* other properties are set (none or one of them).
HookSets == {{}} \cup {{k} : k \in HookKeys}
Configs ==
  {[apiKey |-> "VRTX.key", authenticateUser |-> a, hooks |-> h] :
     a \in BOOLEAN, h \in HookSets}

\* Identities authenticateUser may return.
Identity(userId, userEmail, userName, adminScopes, identifiers) ==
  [t |-> "object", userId |-> userId, userEmail |-> userEmail, userName |-> userName,
   userAvatarUrl |-> Undefined, adminScopes |-> adminScopes,
   allowedEmailDomains |-> Undefined, attributes |-> Undefined,
   identifiers |-> identifiers]
U1 == Str(<<"u", "1">>)
UserEmail == Str(<<"a", "@", "b">>)
Autojoin == Str(<<"a", "u", "t", "o", "j", "o", "i", "n">>)
\* {userId, userEmail, adminScopes: undefined}: the guides' non-admin user.
PlainUser == Identity(U1, UserEmail, Undefined, Undefined, Undefined)
\* {userId, userEmail, adminScopes: ['autojoin']}: the guides' admin.
AdminUser == Identity(U1, UserEmail, Str(<<"n">>), Arr(<<Autojoin>>), Undefined)
\* {userId, identifiers: [{type: 'email', value}], groups}: the README's user.
ReadmeUser ==
  Identity(U1, Undefined, Undefined, Undefined,
           Arr(<<[type |-> Str(EMAIL), value |-> UserEmail]>>))
\* {userEmail} alone: an identity whose userId is missing.
NoIdUser == Identity(Undefined, UserEmail, Undefined, Undefined, Undefined)
Identities == {PlainUser, AdminUser, ReadmeUser, NoIdUser}

\* What a hook or the client may throw.
Faults == {Thrown("boom"), Thrown("secret"), ThrownValue}

\* What the external client may return.
ClientResults == {Str(<<"r", "1">>), Str(<<"r", "2">>)}

-----------------------------------------------------------------------------
(* The handlers as a state machine: one request, from the call of the      *)
(* handler to its response, one step per awaited call.                     *)

VARIABLES
  handlerFile,  \* the file the handler comes from
  op,           \* the handler called
  req,          \* the request it is called with
  config,       \* the configuration getVortexConfig resolves to
  pc,           \* where the handler is: the call it awaits, or "done"
  identity,     \* what the identity resolver answered (the handler's `user`)
  hasAccess,    \* what the predicate answered
  events        \* calls made, what they settled to, and responses sent, in order

vars == <<handlerFile, op, req, config, pc, identity, hasAccess, events>>

NotYet == [t |-> "pending"]
Returned == [t |-> "returned"]

CallEvent(name) == [e |-> name]
SettledEvent(outcome) == [e |-> "settled", outcome |-> outcome]
PredicateEvent(key, user, resource) ==
  [e |-> "predicate", key |-> key, user |-> user, resource |-> resource]
ClientEvent(method, apiKey, args) ==
  [e |-> "client", method |-> method, apiKey |-> apiKey, args |-> args]

\* A step's effect: the next position and the events it adds.
Goto(position, added) == [pc |-> position, events |-> added]

\* Faulty variant of Answer: the response sent without returning, so that it
\* is sent again.
AnswerTwice(response) == Goto("done", <<response, response>>)

\* return createApiResponse(...) / return createErrorResponse(...)
Answer(response) == Goto("done", <<response>>)

\* Faulty variants of Catch: every fault answered as an unauthenticated
\* caller; the thrown message put in the response by every handler.
CatchUnauthorized(operation, thrown) ==
  Answer(createErrorResponse(Unauthorized, 401))
CatchSurfacesMessage(operation, thrown) ==
  Answer(JwtCaught(thrown).response)

\* The catch block of the handler.
Catch(operation, thrown) ==
  IF operation = JwtOp THEN Answer(JwtCaught(thrown).response) ELSE Answer(Caught.response)

\* getVortexConfig(): the configuration, or a throw when none was set.
GetVortexConfigOutcomes == {Returned} \cup Faults

\* authenticateRequest(req, res): what config.authenticateUser answers, and
\* no identity when it is not configured.
AuthenticateRequestOutcomes(cfg) ==
  IF cfg.authenticateUser THEN Identities \cup {Undefined} \cup Faults ELSE {Undefined}

\* config.authenticateUser(req, res) as handleJwtGeneration calls it.
AuthenticateUserOutcomes == Identities \cup {Undefined} \cup Faults

PredicateOutcomes == {Bool(TRUE), Bool(FALSE)} \cup Faults
ClientOutcomes == ClientResults \cup Faults

\* Faulty variant of CallClient: the client method invoked a second time
\* without awaiting the first invocation.
CallClientTwice(cfg, file, operation, request) ==
  LET a == AfterGate(file, operation, request)
  IN IF a.k = "respond" THEN Answer(a.response)
     ELSE Goto("client", <<ClientEvent(ClientMethod(operation), cfg.apiKey, a.data),
                           ClientEvent(ClientMethod(operation), cfg.apiKey, a.data)>>)

\* new Vortex(config.apiKey) and the call of the handler's client method.
CallClient(cfg, file, operation, request) ==
  LET a == AfterGate(file, operation, request)
  IN IF a.k = "respond" THEN Answer(a.response)
     ELSE Goto("client", <<ClientEvent(ClientMethod(operation), cfg.apiKey, a.data)>>)

\* Faulty variants of AccessGate: the identity demanded before the predicate is
\* consulted; delete-by-group also gated by the group read predicate.
AccessGateIdentityFirst(cfg, file, operation, request, user) ==
  IF ~FallbackAllows(user)
  THEN Answer(createErrorResponse(ConfigureHooks, 403))
  ELSE IF Configured(cfg, PredicateKey(operation))
  THEN Goto("predicate",
            <<PredicateEvent(PredicateKey(operation), user,
                             BeforeConfig(file, operation, request).data)>>)
  ELSE CallClient(cfg, file, operation, request)
AccessGateSiblingKey(cfg, file, operation, request, user) ==
  IF \/ Configured(cfg, PredicateKey(operation))
     \/ operation = DeleteByGroupOp /\ Configured(cfg, PredicateKey(ByGroupOp))
  THEN Goto("predicate",
            <<PredicateEvent(PredicateKey(operation), user,
                             BeforeConfig(file, operation, request).data)>>)
  ELSE IF ~FallbackAllows(user)
  THEN Answer(createErrorResponse(ConfigureHooks, 403))
  ELSE CallClient(cfg, file, operation, request)

\* if (config.canX) { hasAccess = await config.canX(req, res, user, resource) }
\* else if (!user) { 403 }
AccessGate(cfg, file, operation, request, user) ==
  IF Configured(cfg, PredicateKey(operation))
  THEN Goto("predicate",
            <<PredicateEvent(PredicateKey(operation), user,
                             BeforeConfig(file, operation, request).data)>>)
  ELSE IF ~FallbackAllows(user)
  THEN Answer(createErrorResponse(ConfigureHooks, 403))
  ELSE CallClient(cfg, file, operation, request)

\* Faulty variants of PredicateDecision: the result of the predicate not looked at;
\* a denial answered as if no predicate were registered.
PredicateDecisionIgnoresResult(cfg, file, operation, request, access) ==
  CallClient(cfg, file, operation, request)
PredicateDecisionFallbackAnswer(cfg, file, operation, request, access) ==
  IF ~Truthy(access)
  THEN Answer(createErrorResponse(ConfigureHooks, 403))
  ELSE CallClient(cfg, file, operation, request)

\* if (!hasAccess) { 403 }
PredicateDecision(cfg, file, operation, request, access) ==
  IF ~Truthy(access)
  THEN Answer(createErrorResponse(AccessDenied, 403))
  ELSE CallClient(cfg, file, operation, request)

\* Faulty variant of JwtAfterConfig: a missing authenticateUser hook answered
\* as an unauthenticated caller.
JwtAfterConfigUnauthorized(cfg) ==
  IF ~cfg.authenticateUser
  THEN Answer(createErrorResponse(Unauthorized, 401))
  ELSE Goto("authenticateUser", <<CallEvent("authenticateUser")>>)

\* handleJwtGeneration once getVortexConfig has returned.
JwtAfterConfig(cfg) ==
  IF ~cfg.authenticateUser
  THEN Answer(createErrorResponse(JwtNeedsAuthentication, 500))
  ELSE Goto("authenticateUser", <<CallEvent("authenticateUser")>>)

\* handleJwtGeneration once authenticateUser has returned `authenticatedUser`;
\* vortex.generateJwt is synchronous and settles to `jwt`.
JwtAfterAuthentication(cfg, authenticatedUser, jwt) ==
  IF ~Truthy(authenticatedUser)
  THEN Answer(createErrorResponse(Unauthorized, 401))
  ELSE IF ~ValidJwtUser(authenticatedUser)
  THEN Answer(createErrorResponse(InvalidUserFormat, 500))
  ELSE LET called == <<ClientEvent("generateJwt", cfg.apiKey, <<JwtParams(authenticatedUser)>>),
                       SettledEvent(jwt)>>
       IN IF IsThrown(jwt)
          THEN Goto("done", called \o <<JwtCaught(jwt).response>>)
          ELSE Goto("done", called \o <<createApiResponse([jwt |-> jwt])>>)

Take(step, settled) ==
  /\ pc' = step.pc
  /\ events' = events \o settled \o step.events

Init ==
  /\ handlerFile \in {Part002, InvitationsTs, JwtTs}
  /\ op \in HandlersOf(handlerFile)
  /\ req \in Requests(op)
  /\ config \in Configs
  /\ pc = "start"
  /\ identity = NotYet
  /\ hasAccess = NotYet
  /\ events = <<>>

\* The handler is called: method check, validation, then getVortexConfig().
HandlerEntry ==
  /\ pc = "start"
  /\ LET b == BeforeConfig(handlerFile, op, req)
     IN Take(IF b.k = "respond" THEN Answer(b.response)
             ELSE Goto("getVortexConfig", <<CallEvent("getVortexConfig")>>), <<>>)
  /\ UNCHANGED <<handlerFile, op, req, config, identity, hasAccess>>

\* getVortexConfig() settles; the handler calls the identity resolver.
GetVortexConfigSettles ==
  /\ pc = "getVortexConfig"
  /\ \E outcome \in GetVortexConfigOutcomes :
       Take(IF IsThrown(outcome) THEN Catch(op, outcome)
            ELSE IF op = JwtOp THEN JwtAfterConfig(config)
            ELSE Goto("authenticateRequest", <<CallEvent("authenticateRequest")>>),
            <<SettledEvent(outcome)>>)
  /\ UNCHANGED <<handlerFile, op, req, config, identity, hasAccess>>

\* authenticateRequest() settles; the access gate.
AuthenticateRequestSettles ==
  /\ pc = "authenticateRequest"
  /\ \E outcome \in AuthenticateRequestOutcomes(config) :
       /\ identity' = outcome
       /\ Take(IF IsThrown(outcome) THEN Catch(op, outcome)
               ELSE AccessGate(config, handlerFile, op, req, outcome),
               <<SettledEvent(outcome)>>)
  /\ UNCHANGED <<handlerFile, op, req, config, hasAccess>>

\* The predicate settles.
PredicateSettles ==
  /\ pc = "predicate"
  /\ \E outcome \in PredicateOutcomes :
       /\ hasAccess' = outcome
       /\ Take(IF IsThrown(outcome) THEN Catch(op, outcome)
               ELSE PredicateDecision(config, handlerFile, op, req, outcome),
               <<SettledEvent(outcome)>>)
  /\ UNCHANGED <<handlerFile, op, req, config, identity>>

\* The client method settles; the response.
ClientSettles ==
  /\ pc = "client"
  /\ \E outcome \in ClientOutcomes :
       Take(IF IsThrown(outcome) THEN Catch(op, outcome)
            ELSE Answer(createApiResponse(SuccessBody(op, outcome))),
            <<SettledEvent(outcome)>>)
  /\ UNCHANGED <<handlerFile, op, req, config, identity, hasAccess>>

\* handleJwtGeneration: authenticateUser settles; generateJwt; the response.
AuthenticateUserSettles ==
  /\ pc = "authenticateUser"
  /\ \E outcome \in AuthenticateUserOutcomes, jwt \in ClientOutcomes :
       /\ identity' = outcome
       /\ Take(IF IsThrown(outcome) THEN Catch(op, outcome)
               ELSE JwtAfterAuthentication(config, outcome, jwt),
               <<SettledEvent(outcome)>>)
  /\ UNCHANGED <<handlerFile, op, req, config, hasAccess>>

Next ==
  \/ HandlerEntry
  \/ GetVortexConfigSettles
  \/ AuthenticateRequestSettles
  \/ PredicateSettles
  \/ ClientSettles
  \/ AuthenticateUserSettles

Spec == Init /\ [][Next]_vars

\* Every call the handler awaits settles (it returns or throws), and the
\* handler then runs on to its next await or to its response.
FairSpec == Spec /\ WF_vars(Next)

-----------------------------------------------------------------------------
(* What a run shows: the calls made and the responses sent.                *)

ClientCalls == SelectSeq(events, LAMBDA x : x.e = "client")
PredicateCalls == SelectSeq(events, LAMBDA x : x.e = "predicate")
ResolverCalls == SelectSeq(events, LAMBDA x : x.e \in {"authenticateRequest", "authenticateUser"})
Responses == SelectSeq(events, LAMBDA x : x.e = "response")

\* The identity resolver returned an identity / returned none.
IdentityResolved == identity \in Identities
NoIdentity == identity = Undefined

\* A predicate is registered under the operation's own key.
OwnPredicate == Configured(config, PredicateKey(op))

PredicateAllowed == hasAccess = Bool(TRUE)
PredicateDenied == hasAccess = Bool(FALSE)

\* The response sent has this status.
Answered(status) == Len(Responses) = 1 /\ Responses[1].status = status

-----------------------------------------------------------------------------
\* C1: in every invitation handler the external client is called only if
\* the predicate registered under the operation's key was invoked and
\* returned true, or no predicate is registered under it and the identity
\* resolver returned an identity; a predicate returning false never leads to
\* a client call.
C1_ClientOnlyPastGate ==
  (op \in InvitationOps /\ ClientCalls # <<>>) =>
    /\ IF OwnPredicate
       THEN /\ Len(PredicateCalls) = 1
            /\ PredicateCalls[1].key = PredicateKey(op)
            /\ PredicateAllowed
       ELSE PredicateCalls = <<>> /\ IdentityResolved
    /\ ~PredicateDenied

C1_Witness ==
  /\ handlerFile = InvitationsTs /\ op = AcceptOp
  /\ OwnPredicate /\ PredicateAllowed /\ Len(ClientCalls) = 1

\* C2 as amended: in every invitation handler, when no predicate is
\* configured for the operation and the identity resolver returns no
\* identity, the response is 403 and the external client is never called.
C2_NoPredicateNoIdentityIs403 ==
  (op \in InvitationOps /\ ~OwnPredicate /\ NoIdentity) =>
    pc = "done" /\ Answered(403) /\ ClientCalls = <<>>

C2_Witness ==
  op = ByTargetOp /\ ~OwnPredicate /\ NoIdentity /\ Answered(403)

\* C2 as stated: for every operation, JWT issuance included, no predicate
\* and no identity give 403.
C2_Original ==
  (pc = "done" /\ ~OwnPredicate /\ NoIdentity) => Answered(403) /\ ClientCalls = <<>>

\* A deny decision of the access gate: the predicate returned false, or no
\* predicate is registered and the resolver returned no identity.
GateDenied == op \in InvitationOps /\ (PredicateDenied \/ (~OwnPredicate /\ NoIdentity))

\* C3 as amended: every deny decision produces one 403 response and no
\* client call; its message is the configure-the-hooks message when no
\* predicate is registered, and "Access denied" when a predicate denied.
C3_DenyIs403 ==
  GateDenied =>
    /\ Responses =
         <<createErrorResponse(IF PredicateDenied THEN AccessDenied ELSE ConfigureHooks, 403)>>
    /\ ClientCalls = <<>>

C3_Witness == op = DeleteByGroupOp /\ PredicateDenied /\ Answered(403)

\* C3 as stated: every deny decision answers 403 with the
\* configure-the-hooks message.
C3_Original ==
  GateDenied =>
    Responses = <<createErrorResponse(ConfigureHooks, 403)>> /\ ClientCalls = <<>>

\* The request passes the handler's validation, before and after the gate.
PassesValidation ==
  /\ BeforeConfig(handlerFile, op, req).k = "continue"
  /\ AfterGate(handlerFile, op, req).k = "continue"

\* C4: when a predicate is registered for the operation it is consulted
\* whatever the identity is, and its result alone decides: true lets a valid
\* request reach the client even with no identity, false is a 403 even with
\* an identity.
C4_PredicateAloneDecides ==
  (op \in InvitationOps /\ OwnPredicate) =>
    /\ (IdentityResolved \/ NoIdentity) => Len(PredicateCalls) = 1
    /\ (PredicateAllowed /\ PassesValidation) => Len(ClientCalls) = 1
    /\ PredicateDenied => ClientCalls = <<>> /\ Answered(403)

C4_Witness ==
  op = ReinviteOp /\ OwnPredicate /\ NoIdentity /\ PredicateAllowed /\ Len(ClientCalls) = 1


\* The configurations that agree with cfg on apiKey, authenticateUser and
\* the property `own`, and set none, all, or one of the other properties.
OtherKeysVariants(cfg, own) ==
  LET others == HookKeys \ {own}
  IN {[cfg EXCEPT !.hooks = (cfg.hooks \cap {own}) \cup h] :
        h \in {{}, others} \cup {{k} : k \in others}}

\* C5: predicate keys are independent.  Wherever the handler stands, its
\* next step (position, calls and response) is the same under every
\* configuration that agrees on the operation's own key, on the identity
\* resolver and on the API key, whatever is registered under the other keys;
\* and a predicate invoked is the one under the operation's own key.
C5_PredicateKeysIndependent ==
  /\ \A i \in 1..Len(PredicateCalls) : PredicateCalls[i].key = PredicateKey(op)
  /\ \A c2 \in OtherKeysVariants(config, PredicateKey(op)) :
       /\ (pc = "getVortexConfig" /\ op = JwtOp) => JwtAfterConfig(c2) = JwtAfterConfig(config)
       /\ pc = "authenticateRequest" =>
            /\ AuthenticateRequestOutcomes(c2) = AuthenticateRequestOutcomes(config)
            /\ \A user \in Identities \cup {Undefined} :
                 AccessGate(c2, handlerFile, op, req, user)
                   = AccessGate(config, handlerFile, op, req, user)
       /\ pc = "predicate" =>
            \A access \in {Bool(TRUE), Bool(FALSE)} :
              PredicateDecision(c2, handlerFile, op, req, access)
                = PredicateDecision(config, handlerFile, op, req, access)
       /\ pc = "authenticateUser" =>
            \A user \in Identities \cup {Undefined}, jwt \in ClientOutcomes :
              JwtAfterAuthentication(c2, user, jwt) = JwtAfterAuthentication(config, user, jwt)

C5_Witness ==
  /\ op = DeleteByGroupOp /\ config.hooks = {PredicateKey(ByGroupOp)}
  /\ IdentityResolved /\ PredicateCalls = <<>> /\ Len(ClientCalls) = 1

\* C6: with no access-control hook configured at all and the identity
\* resolver returning an identity, no invitation handler responds 403.
C6_AuthenticatedNeverDenied ==
  (op \in InvitationOps /\ config.hooks = {} /\ IdentityResolved) =>
    \A i \in 1..Len(Responses) : Responses[i].status # 403

C6_Witness ==
  op = RevokeOp /\ config.hooks = {} /\ identity = PlainUser /\ Answered(200)

\* C7: with the integration guide's configuration (hooks under
\* `accessControl`, canRevokeInvitation false for a user without the
\* 'autojoin' scope), DELETE /invitations/:id from an authenticated
\* non-admin user is denied and revokeInvitation is never called.
C7_GuideRevokeDenied ==
  (/\ op = RevokeOp /\ config.authenticateUser /\ config.hooks = {AccessControl}
   /\ identity = PlainUser) =>
    /\ ClientCalls = <<>>
    /\ pc = "done" => Answered(403)


\* An accept request that reached the handler's own checks: POST with a body.
AcceptPosted == op = AcceptOp /\ req.method = "POST" /\ Truthy(req.body)

\* invitationIds is no non-empty array, or sanitising some element of it
\* yields an empty or absent value.
BadIds(invitationIds) ==
  \/ ~IsArray(invitationIds)
  \/ Len(invitationIds.v) = 0
  \/ \E i \in 1..Len(invitationIds.v) : ~Truthy(sanitizeInput(invitationIds.v[i]))

\* invitationIds is a non-empty array of strings none of which sanitises to
\* the empty string.
GoodIds(invitationIds) ==
  /\ IsArray(invitationIds) /\ Len(invitationIds.v) > 0
  /\ \A i \in 1..Len(invitationIds.v) :
       /\ IsString(invitationIds.v[i])
       /\ Truthy(sanitizeInput(invitationIds.v[i]))

\* C8: in the accept operation the invitation-id list is all-or-nothing: if
\* invitationIds is not a non-empty array, or sanitising any element yields
\* an empty or absent value, the response is 400 and the external client is
\* never called; and whenever acceptInvitations is called, the list passed
\* has the length of the request's list and its i-th element is the
\* sanitised i-th element of the request.
C8_IdListAllOrNothing ==
  AcceptPosted =>
    /\ BadIds(req.body.invitationIds) =>
         /\ ClientCalls = <<>>
         /\ pc = "done" => Answered(400)
    /\ \A i \in 1..Len(ClientCalls) :
         ClientCalls[i].args[1] = Arr(MapSanitize(req.body.invitationIds.v))

\* C9: an accept request with a valid non-empty invitationIds list and
\* neither a `user` nor a `target` is answered 400 with
\* {error: "Either user or target must be provided"}, and neither the
\* identity resolver, nor the predicate, nor the external client is invoked.
C9_NeitherUserNorTargetIs400 ==
  (/\ AcceptPosted /\ GoodIds(req.body.invitationIds)
   /\ req.body.user = Undefined /\ req.body.target = Undefined) =>
    /\ ResolverCalls = <<>> /\ PredicateCalls = <<>> /\ ClientCalls = <<>>
    /\ pc # "start" =>
         Responses = <<createErrorResponse("Either user or target must be provided", 400)>>

\* An accept request in the legacy format: valid ids, no `user`, a target
\* whose type is in the handler's allow-list and whose value is a non-empty
\* string; an identity resolved and no canAcceptInvitations configured.
LegacyAcceptCase ==
  /\ AcceptPosted /\ GoodIds(req.body.invitationIds)
  /\ req.body.user = Undefined
  /\ Truthy(req.body.target)
  /\ req.body.target.type \in TargetTypes(handlerFile)
  /\ IsString(req.body.target.value) /\ Truthy(req.body.target.value)
  /\ IdentityResolved /\ ~OwnPredicate

\* The response follows the client's return: 200 with exactly that value.
AnswersClientResult ==
  LET n == Len(events)
  IN pc = "done" =>
       /\ events[n - 1].e = "settled"
       /\ ~IsThrown(events[n - 1].outcome) =>
            events[n] = [e |-> "response", status |-> 200, body |-> events[n - 1].outcome]

\* C10 as amended: in the legacy accept case acceptInvitations is invoked
\* exactly once with the sanitised ids in request order and {type, value},
\* where value is the sanitised target value, or the value as received when
\* sanitising leaves nothing of it; when the client returns, the response is
\* 200 and its body is exactly the value the client returned.
C10_LegacyAcceptDelegates ==
  LegacyAcceptCase =>
    LET target == req.body.target
        sanitized == sanitizeInput(target.value)
        value == IF sanitized.v = <<>> THEN target.value ELSE sanitized
    IN /\ Len(ClientCalls) = 1
       /\ ClientCalls[1].method = "acceptInvitations"
       /\ ClientCalls[1].args =
            <<Arr(MapSanitize(req.body.invitationIds.v)), [type |-> target.type, value |-> value]>>
       /\ AnswersClientResult

C10_Witness ==
  /\ LegacyAcceptCase /\ handlerFile = Part002
  /\ req.body.target.value = Str(<<" ", "b", "<">>)
  /\ Len(req.body.invitationIds.v) = 2
  /\ Answered(200)

\* C10 as stated: the client receives the target's value as the request
\* carries it.
C10_Original ==
  LegacyAcceptCase =>
    /\ Len(ClientCalls) = 1
    /\ ClientCalls[1].method = "acceptInvitations"
    /\ ClientCalls[1].args =
         <<Arr(MapSanitize(req.body.invitationIds.v)),
           [type |-> req.body.target.type, value |-> req.body.target.value]>>
    /\ AnswersClientResult


\* The payload carries a `user` object / one with at least one of email and
\* phone / a `target` with both type and value.
HasUser == Truthy(req.body.user)
UserHasContact ==
  IF HasUser THEN Truthy(req.body.user.email) \/ Truthy(req.body.user.phone) ELSE FALSE
TargetComplete ==
  IF Truthy(req.body.target)
  THEN Truthy(req.body.target.type) /\ Truthy(req.body.target.value)
  ELSE FALSE

\* C11: in the accept operation acceptInvitations is invoked only when the
\* payload carries a `user` with at least one of email and phone, or a
\* `target` with both type and value; a request with a valid id list whose
\* `user` object has neither email nor phone is answered 400 and the client
\* is not called.
C11_AcceptNeedsContact ==
  AcceptPosted =>
    /\ ClientCalls # <<>> => UserHasContact \/ TargetComplete
    /\ (GoodIds(req.body.invitationIds) /\ HasUser /\ ~UserHasContact) =>
         /\ ClientCalls = <<>>
         /\ pc = "done" => Answered(400)


\* No awaited call of the run has thrown.
NoFault ==
  \A i \in 1..Len(events) : events[i].e = "settled" => ~IsThrown(events[i].outcome)

\* C12: enumerated inputs are allow-listed.  A get-by-target request whose
\* targetType is not email, username or phoneNumber is answered 400 with a
\* message listing the allowed values; an accept request in the legacy
\* format whose target type is outside the handler's allow-list is answered
\* 400; a sync-internal request whose action is not accepted or declined is
\* answered 400; and the client is never invoked with a value outside the
\* allow-list.
C12_EnumsAllowListed ==
  /\ (op = ByTargetOp /\ req.method = "GET" /\ NoFault /\ pc = "done") =>
       LET targetType == sanitizeInput(getQueryParam(req, "targetType"))
           targetValue == sanitizeInput(getQueryParam(req, "targetValue"))
       IN (Truthy(targetType) /\ Truthy(targetValue) /\ targetType \notin QueryTargetTypes) =>
            Responses =
              <<createErrorResponse("targetType must be email, username, or phoneNumber", 400)>>
  /\ (AcceptPosted /\ GoodIds(req.body.invitationIds) /\ ~HasUser /\ TargetComplete
      /\ pc = "done") =>
       (req.body.target.type \notin TargetTypes(handlerFile) => Answered(400))
  /\ (op = SyncOp /\ req.method = "POST" /\ Truthy(req.body) /\ pc = "done") =>
       (req.body.action \notin SyncActions => Answered(400))
  /\ \A i \in 1..Len(ClientCalls) :
       LET args == ClientCalls[i].args
       IN /\ op = ByTargetOp => args[1] \in QueryTargetTypes
          /\ (op = AcceptOp /\ "type" \in DOMAIN args[2]) =>
               args[2].type \in TargetTypes(handlerFile)
          /\ op = SyncOp => args[1].action \in SyncActions


\* getVortexConfig() has returned the configuration.
ConfigResolved == \E i \in 1..Len(events) : events[i] = SettledEvent(Returned)

\* The identity carries both userId and userEmail.
HasIdAndEmail == Truthy(identity.userId) /\ Truthy(identity.userEmail)

\* C13: the outcome of POST /jwt, once the configuration is resolved, is the
\* decision table, in this order: no authenticateUser hook -> 500 (not 401);
\* the hook returns no identity -> 401 {error: "Unauthorized"}; the identity
\* lacks userId or userEmail -> 500; otherwise 200 {jwt: token} with the
\* token generateJwt returned.  generateJwt is called only in the last case,
\* with user.id and user.email equal to the identity's userId and userEmail.
C13_JwtDecisionTable ==
  (op = JwtOp /\ req.method = "POST" /\ ConfigResolved /\ pc = "done") =>
    IF ~config.authenticateUser
    THEN /\ Answered(500) /\ ResolverCalls = <<>> /\ ClientCalls = <<>>
    ELSE IF NoIdentity
    THEN /\ Responses = <<createErrorResponse("Unauthorized", 401)>>
         /\ ClientCalls = <<>>
    ELSE IF IdentityResolved /\ ~HasIdAndEmail
    THEN Answered(500) /\ ClientCalls = <<>>
    ELSE IF IdentityResolved
    THEN /\ Len(ClientCalls) = 1
         /\ ClientCalls[1].method = "generateJwt"
         /\ ClientCalls[1].args[1].user.id = identity.userId
         /\ ClientCalls[1].args[1].user.email = identity.userEmail
         /\ \A token \in ClientResults :
              SettledEvent(token) = events[Len(events) - 1] =>
                Responses = <<[e |-> "response", status |-> 200, body |-> [jwt |-> token]]>>
    ELSE ClientCalls = <<>>

C13_Witness ==
  /\ op = JwtOp /\ identity = AdminUser /\ Answered(200)
  /\ ClientCalls[1].args[1].user.adminScopes = Arr(<<Autojoin>>)

\* C14: with authenticateUser returning the README quick start identity
\* {userId, identifiers: [{type: 'email', value}], groups}, POST /jwt
\* generates a JWT for that user: generateJwt is called and, when it returns,
\* the response is 200 with the jwt in its body.
C14_ReadmeIdentityGetsJwt ==
  (/\ op = JwtOp /\ req.method = "POST" /\ config.authenticateUser
   /\ identity = ReadmeUser /\ pc = "done") =>
    /\ Len(ClientCalls) = 1
    /\ NoFault => Answered(200)


\* The HTTP method fixed for each operation, as the claim lists it.
MethodFixedFor(operation) ==
  CASE operation \in {"handleJwtGeneration", "handleAcceptInvitations", "handleReinvite",
                      "handleSyncInternalInvitation"} -> "POST"
    [] operation \in {"handleGetInvitationsByTarget", "handleGetInvitation",
                      "handleGetInvitationsByGroup"} -> "GET"
    [] operation \in {"handleRevokeInvitation", "handleDeleteInvitationsByGroup"} -> "DELETE"

\* C15: every handler invoked with another HTTP method than the one fixed
\* for its operation responds 405 {error: "Method not allowed"}, and that
\* response is all it does: configuration is not resolved, the body is not
\* read, and neither the identity resolver, nor a predicate, nor the
\* external client is invoked.
C15_WrongMethodIs405 ==
  (req.method # MethodFixedFor(op) /\ pc # "start") =>
    /\ pc = "done"
    /\ events = <<[e |-> "response", status |-> 405, body |-> [error |-> "Method not allowed"]]>>

C15_Witness ==
  /\ op = AcceptOp /\ req.method = "GET" /\ req.body = Undefined
  /\ Answered(405) /\ Len(events) = 1


\* C16: for every handler and every request the response status is one of
\* 200, 400, 401, 403, 405, 500; every response with another status than 200
\* has a body with an `error` string; and 401 is produced by the JWT
\* operation only.
C16_StatusesAndErrorBodies ==
  \A i \in 1..Len(Responses) :
    LET response == Responses[i]
    IN /\ response.status \in {200, 400, 401, 403, 405, 500}
       /\ response.status # 200 =>
            /\ DOMAIN response.body = {"error"}
            /\ response.body.error \in STRING
       /\ response.status = 401 => op = JwtOp

C16_Witness == op = JwtOp /\ NoIdentity /\ Answered(401)


\* The client method was invoked and settled to `outcome`.
ClientSettled(outcome) ==
  \E i \in 2..Len(events) : events[i - 1].e = "client" /\ events[i] = SettledEvent(outcome)

\* C17 as amended: when the external client raises a fault the response has
\* status 500; in the invitation handlers its `error` is the fixed text
\* "An error occurred while processing your request", and in the JWT handler
\* it is the fault's message when the fault is an Error and "An error
\* occurred" otherwise.
C17_ClientFaultIs500 ==
  \A fault \in Faults :
    (ClientSettled(fault) /\ pc = "done") =>
      Responses =
        <<[e |-> "response", status |-> 500,
           body |-> [error |->
             IF op # JwtOp THEN "An error occurred while processing your request"
             ELSE IF fault.isError THEN fault.message
             ELSE "An error occurred"]]>>

C17_Witness ==
  /\ op = GetOp /\ ClientSettled(Thrown("secret")) /\ Answered(500)
  /\ Responses[1].body.error # "secret"

\* C17 as stated: the `error` of the 500 response is the message of the fault
\* the client raised, in every operation.
C17_Original ==
  \A fault \in Faults :
    (ClientSettled(fault) /\ fault.isError /\ pc = "done") =>
      Responses = <<[e |-> "response", status |-> 500, body |-> [error |-> fault.message]]>>


\* The Errors a call may throw, which differ in their message only.
ErrorFaults == {fault \in Faults : fault.isError}

\* The response a step ends with.
ResponseOf(step) == step.events[Len(step.events)]

\* C18: internal fault details do not reach the caller.  Wherever the
\* handler awaits configuration resolution, the identity resolver, a
\* predicate or the external client, two Errors that differ in their message
\* only lead to the same response (same status, same body); this for every
\* operation, JWT issuance included.
C18_FaultMessageHidden ==
  \A f1, f2 \in ErrorFaults :
    /\ pc \in {"getVortexConfig", "authenticateRequest", "predicate", "client",
               "authenticateUser"} =>
         ResponseOf(Catch(op, f1)) = ResponseOf(Catch(op, f2))
    /\ pc = "authenticateUser" =>
         \A user \in Identities :
           ResponseOf(JwtAfterAuthentication(config, user, f1))
             = ResponseOf(JwtAfterAuthentication(config, user, f2))


\* The client method fixed for each operation, as the claim lists it.
MethodFixedOnClient(operation) ==
  CASE operation = "handleGetInvitationsByTarget" -> "getInvitationsByTarget"
    [] operation = "handleGetInvitation" -> "getInvitation"
    [] operation = "handleRevokeInvitation" -> "revokeInvitation"
    [] operation = "handleAcceptInvitations" -> "acceptInvitations"
    [] operation = "handleGetInvitationsByGroup" -> "getInvitationsByGroup"
    [] operation = "handleDeleteInvitationsByGroup" -> "deleteInvitationsByGroup"
    [] operation = "handleReinvite" -> "reinvite"
    [] operation = "handleSyncInternalInvitation" -> "syncInternalInvitation"
    [] operation = "handleJwtGeneration" -> "generateJwt"

\* C19: each request causes at most one invocation of a client method, the
\* one fixed for the operation; the response is sent only after that
\* invocation has returned or thrown; and an invocation that throws is not
\* followed by another one.
C19_OneAwaitedClientCall ==
  /\ Len(ClientCalls) <= 1
  /\ \A i \in 1..Len(ClientCalls) : ClientCalls[i].method = MethodFixedOnClient(op)
  /\ \A i \in 1..Len(events) :
       events[i].e = "client" =>
         /\ i = Len(events) => pc = "client" /\ Responses = <<>>
         /\ i < Len(events) => events[i + 1].e = "settled"
         /\ \A j \in 1..Len(events) : events[j].e \in {"response", "client"} /\ j # i => j > i + 1
  /\ \A i \in 1..Len(events) :
       (events[i].e = "settled" /\ IsThrown(events[i].outcome)) =>
         \A j \in (i + 1)..Len(events) : events[j].e # "client"

C19_Witness ==
  /\ op = SyncOp /\ ClientSettled(Thrown("boom"))
  /\ Len(ClientCalls) = 1 /\ Answered(500)


\* The free-form string arguments of a call of the client, per operation.
FreeFormArguments(call) ==
  LET args == call.args
  IN CASE op \in {GetOp, RevokeOp, ReinviteOp} -> {args[1]}
       [] op \in {ByGroupOp, DeleteByGroupOp} -> {args[1], args[2]}
       [] op = ByTargetOp -> {args[2]}
       [] op = AcceptOp ->
            {args[1].v[i] : i \in 1..Len(args[1].v)} \cup
            (IF "type" \in DOMAIN args[2] THEN {args[2].value}
             ELSE {args[2].email, args[2].phone, args[2].name})
       [] op = SyncOp -> {args[1].creatorId, args[1].targetValue, args[1].componentId}
       [] OTHER -> {}

\* A string free of < > ' " and at most 1000 code units long.
IsSanitised(x) ==
  IsString(x) =>
    /\ \A i \in 1..Len(x.v) : x.v[i] \notin {"<", ">", "'", "\""}
    /\ Len(x.v) <= 1000

\* C20: every free-form string argument an invitation handler passes to the
\* external client (invitation ids, group type and id, target value, user
\* email, phone and name, creatorId, targetValue, componentId) is a sanitised
\* value: it contains none of < > ' " and is at most 1000 code units long.
C20_ClientArgumentsSanitised ==
  \A i \in 1..Len(ClientCalls) :
    \A x \in FreeFormArguments(ClientCalls[i]) : IsSanitised(x)


\* A string that is present in the request and of which sanitising leaves
\* nothing.
EmptiesOut(x) == IsString(x) /\ Truthy(x) /\ sanitizeInput(x) = Str(<<>>)

\* A string of which sanitising leaves something.
Survives(x) == IsString(x) /\ Truthy(sanitizeInput(x))

\* The required string inputs of the request, per operation (for accept with
\* a valid id list: the target value of the legacy format, or the user's
\* email and phone when neither survives sanitising).
RequiredInputs ==
  CASE op \in {GetOp, RevokeOp, ReinviteOp} -> {req.invitationId}
    [] op \in {ByGroupOp, DeleteByGroupOp} -> {req.groupType, req.groupId}
    [] op = ByTargetOp -> {req.targetValue}
    [] op = AcceptOp /\ Truthy(req.body) ->
         IF ~GoodIds(req.body.invitationIds) THEN {}
         ELSE IF handlerFile = Part002 /\ HasUser
         THEN IF Survives(req.body.user.email) \/ Survives(req.body.user.phone) THEN {}
              ELSE {req.body.user.email, req.body.user.phone}
         ELSE IF Truthy(req.body.target) THEN {req.body.target.value}
         ELSE {}
    [] op = SyncOp /\ Truthy(req.body) ->
         {req.body.creatorId, req.body.targetValue, req.body.componentId}
    [] OTHER -> {}

\* The required string arguments of a call of the client, per operation.
RequiredArguments(call) ==
  LET args == call.args
  IN CASE op = AcceptOp ->
            IF "type" \in DOMAIN args[2] THEN {args[2].value}
            ELSE {args[2].email, args[2].phone}
       [] OTHER -> FreeFormArguments(call)

\* C21: a required string input whose sanitised value is empty is treated
\* like a missing one in every operation: the request is rejected with 400
\* and the client is not called; and the client is never invoked with an
\* empty string for a required argument.
C21_EmptyAfterSanitisingIsMissing ==
  /\ (req.method = MethodFixedFor(op) /\ \E x \in RequiredInputs : EmptiesOut(x)) =>
       /\ ClientCalls = <<>>
       /\ (pc = "done" /\ NoFault /\ ~Answered(403)) => Answered(400)
  /\ \A i \in 1..Len(ClientCalls) :
       \A x \in RequiredArguments(ClientCalls[i]) : x # Str(<<>>)


\* The request fields an error message of the handlers names.
FieldsNamed(message) ==
  CASE message = "creatorId is required and must be a string" -> {"creatorId"}
    [] message = "targetValue is required and must be a string" -> {"targetValue"}
    [] message = "action is required and must be \"accepted\" or \"declined\"" -> {"action"}
    [] message = "componentId is required and must be a string" -> {"componentId"}
    [] message = "invitationIds must be a non-empty array" -> {"invitationIds"}
    [] message = "Invalid invitation IDs provided" -> {"invitationIds"}
    [] message = "Either user or target must be provided" -> {"user", "target"}
    [] message = "user must have either email or phone" -> {"user"}
    [] message = "target must have type and value properties" -> {"target"}
    [] OTHER -> {}

\* The fields among `fields` the request body lacks.
Lacking(fields) == {f \in fields : req.body[f] = Undefined}

\* C22: a request that lacks several of the fields its operation requires is
\* answered 400 with an error message that names every missing field; this
\* for sync-internal's creatorId, targetValue, action and componentId, and
\* for the accept operation's invitationIds and target (no `user` given).
C22_AllMissingFieldsNamed ==
  /\ (op = SyncOp /\ req.method = "POST" /\ Truthy(req.body) /\ pc = "done") =>
       LET missing == Lacking({"creatorId", "targetValue", "action", "componentId"})
       IN Cardinality(missing) >= 2 =>
            Answered(400) /\ missing \subseteq FieldsNamed(Responses[1].body.error)
  /\ (AcceptPosted /\ req.body.user = Undefined /\ pc = "done") =>
       LET missing == Lacking({"invitationIds", "target"})
       IN Cardinality(missing) >= 2 =>
            Answered(400) /\ missing \subseteq FieldsNamed(Responses[1].body.error)


-----------------------------------------------------------------------------
(* sanitizeInput on its own: the function applied to a string, and applied *)
(* once more to its own result.  The variables of the handlers are used    *)
(* as follows: `req` is the input string, `events` the results so far, and *)
(* `pc` counts the applications; the others keep their initial value.      *)

\* Longest of the short strings drawn as input of sanitizeInput.
MaxStringLength == 4

\* Characters of the inputs: a plain one, whitespace, and a stripped one.
SanitizeAlphabet == {"a", " ", "<"}

StringsUpTo(n) == UNION {[1..k -> SanitizeAlphabet] : k \in 0..n}

\* Inputs around the length limit: SanitizeMaxLength - 1 plain characters
\* followed by up to two more.
LongStrings ==
  {[i \in 1..(SanitizeMaxLength - 1) |-> "a"] \o tail : tail \in StringsUpTo(2)}

\* "a@b.com"
CleanAddress == <<"a", "@", "b", ".", "c", "o", "m">>

SanitizeInputs == StringsUpTo(MaxStringLength) \cup LongStrings \cup {CleanAddress}

SanitizeInit ==
  /\ handlerFile = "src/unnamed/part_001"
  /\ op = "sanitizeInput"
  /\ req \in {Str(s) : s \in SanitizeInputs}
  /\ config = NotYet
  /\ pc = "start"
  /\ identity = NotYet
  /\ hasAccess = NotYet
  /\ events = <<>>

\* sanitizeInput(x)
SanitizeApply ==
  /\ pc = "start"
  /\ events' = <<sanitizeInput(req)>>
  /\ pc' = "sanitised"
  /\ UNCHANGED <<handlerFile, op, req, config, identity, hasAccess>>

\* sanitizeInput(sanitizeInput(x))
SanitizeAgain ==
  /\ pc = "sanitised"
  /\ events' = Append(events, sanitizeInput(events[1]))
  /\ pc' = "done"
  /\ UNCHANGED <<handlerFile, op, req, config, identity, hasAccess>>

SanitizeNext == SanitizeApply \/ SanitizeAgain

SanitizeSpec == SanitizeInit /\ [][SanitizeNext]_vars

\* A string value with no leading and no trailing whitespace; the absent
\* value (of the empty input) has none either.
IsTrimmed(x) ==
  (IsString(x) /\ x.v # <<>>) => x.v[1] # " " /\ x.v[Len(x.v)] # " "

\* C23: sanitation is idempotent: sanitizeInput(sanitizeInput(x)) equals
\* sanitizeInput(x) for every string x; "a@b.com" sanitises to itself; and
\* every sanitised output is trimmed.
C23_SanitationIdempotent ==
  /\ pc = "done" => events[2] = events[1]
  /\ pc # "start" =>
       /\ IsTrimmed(events[1])
       /\ req = Str(CleanAddress) => events[1] = req


-----------------------------------------------------------------------------
\* The request has the handler's method and a body where the handler reads
\* one, and one of the handler's checks of its input rejects it.
FailsValidation ==
  /\ op \in InvitationOps
  /\ req.method = ExpectedMethod(op)
  /\ op \in {AcceptOp, SyncOp} => Truthy(req.body)
  /\ ~PassesValidation

\* The index of the first event of the kinds given, or 0 when there is none.
FirstEvent(kinds) ==
  IF \E i \in 1..Len(events) : events[i].e \in kinds
  THEN CHOOSE i \in 1..Len(events) :
         /\ events[i].e \in kinds
         /\ \A j \in 1..(i - 1) : events[j].e \notin kinds
  ELSE 0

\* C26: every operation runs its stages in the same order: input validation,
\* then identity resolution, then the access gate, then the external client.
\* So for every invitation operation a request that fails input validation
\* is answered 400 and neither the identity resolver nor the operation's
\* predicate is ever invoked for it.
C26_StagesInOrder ==
  /\ LET resolver == FirstEvent({"authenticateRequest", "authenticateUser"})
         predicate == FirstEvent({"predicate"})
         client == FirstEvent({"client"})
     IN /\ predicate # 0 => (resolver # 0 /\ resolver < predicate)
        /\ client # 0 => (resolver # 0 /\ resolver < client)
        /\ (client # 0 /\ predicate # 0) => predicate < client
  /\ (FailsValidation /\ pc # "start") =>
       /\ ResolverCalls = <<>>
       /\ PredicateCalls = <<>>
       /\ pc = "done" /\ Answered(400)


-----------------------------------------------------------------------------
\* The values of a predicate's resource descriptor are the arguments of the
\* client call, per operation.
ResourceIsArguments(resource, args) ==
  IF resource = Undefined THEN FALSE
  ELSE CASE op \in {GetOp, RevokeOp, ReinviteOp} -> args = <<resource.invitationId>>
         [] op \in {ByGroupOp, DeleteByGroupOp} ->
              args = <<resource.groupType, resource.groupId>>
         [] op = SyncOp -> args = <<resource>>
         [] op = AcceptOp ->
              /\ args[1] = resource.invitationIds
              /\ IF "type" \in DOMAIN args[2]
                 THEN /\ Truthy(resource.target)
                      /\ resource.target.type = args[2].type
                      /\ resource.target.value = args[2].value
                 ELSE /\ "user" \in DOMAIN resource
                      /\ Truthy(resource.user)
                      /\ resource.user.email = args[2].email
                      /\ resource.user.phone = args[2].phone
                      /\ resource.user.name = args[2].name
         [] op = ByTargetOp ->
              /\ {"targetType", "targetValue"} \subseteq DOMAIN resource
              /\ args = <<resource.targetType, resource.targetValue>>

\* C27: whenever an operation's predicate is invoked and the client is
\* called afterwards, the resource descriptor the predicate received holds
\* the same normalised values the client is called with (ids, group type and
\* id, target or user, sync fields, get-by-target's targetType and
\* targetValue): the predicate never authorises on data that differs from
\* the client's arguments.
C27_PredicateSeesClientArguments ==
  \A i \in 1..Len(PredicateCalls) :
    \A j \in 1..Len(ClientCalls) :
      ResourceIsArguments(PredicateCalls[i].resource, ClientCalls[j].args)


-----------------------------------------------------------------------------
\* The body the response carries for a client result, per operation.
ResultBody(result) ==
  CASE op \in {GetOp, AcceptOp, SyncOp, ReinviteOp} -> result
    [] op \in {ByTargetOp, ByGroupOp} -> [invitations |-> result]
    [] op = JwtOp -> [jwt |-> result]
    [] op \in {RevokeOp, DeleteByGroupOp} -> [success |-> TRUE]

\* C28 as amended: whenever the external client returns normally the
\* response has status 200.  Its body is the client's return value for get,
\* accept, reinvite and sync-internal, the return value under `invitations`
\* for get-by-target and get-by-group and under `jwt` for JWT issuance, and
\* {success: true}, whatever the client returned, for revoke and
\* delete-by-group.
C28_ClientResultAnswered ==
  \A result \in ClientResults :
    ClientSettled(result) =>
      /\ pc = "done"
      /\ Responses = <<[e |-> "response", status |-> 200, body |-> ResultBody(result)]>>

\* handleRevokeInvitation or handleDeleteInvitationsByGroup has answered
\* after its client method returned.
C28_RevokeAnswered ==
  /\ op \in {RevokeOp, DeleteByGroupOp}
  /\ \E result \in ClientResults : ClientSettled(result)
  /\ pc = "done"

\* C28 as stated: for every operation, revoke and delete-by-group included,
\* whenever the external client returns normally the response has status 200
\* and carries the client's return value unchanged in its JSON body.
C28_AsStated ==
  \A result \in ClientResults :
    ClientSettled(result) =>
      /\ Answered(200)
      /\ Responses[1].body \in {result, [invitations |-> result], [jwt |-> result]}


-----------------------------------------------------------------------------
\* getVortexConfig(), the identity resolver or the predicate has thrown.
HookFaulted ==
  \E i \in 2..Len(events) :
    /\ events[i - 1].e \in {"getVortexConfig", "authenticateRequest", "predicate"}
    /\ events[i].e = "settled"
    /\ IsThrown(events[i].outcome)

\* An accept or sync-internal request that came without a body has been
\* handled.
BodyAbsent ==
  /\ op \in {AcceptOp, SyncOp}
  /\ req.method = "POST"
  /\ ~Truthy(req.body)
  /\ pc # "start"

\* C29: the gate fails closed on hook faults.  In every invitation handler,
\* if configuration resolution, the identity resolver or the operation's
\* predicate throws, or the request body is absent for accept or
\* sync-internal, the external client is never invoked for that request and
\* the response is 500.
C29_FailsClosedOnFaults ==
  (op \in InvitationOps /\ (HookFaulted \/ BodyAbsent)) =>
    /\ ClientCalls = <<>>
    /\ pc = "done"
    /\ Answered(500)

\* The predicate of an invitation handler was invoked and has thrown, and
\* the handler has answered.
C29_PredicateThrew ==
  /\ op \in InvitationOps
  /\ pc = "done"
  /\ PredicateCalls # <<>>
  /\ IsThrown(hasAccess)


-----------------------------------------------------------------------------
\* C30: every handler invocation sends exactly one response.  Whatever the
\* request and the configuration, and whatever the hooks and the external
\* client return or throw, the handler reaches a terminal state, in which
\* createApiResponse or createErrorResponse has been called exactly once, and
\* no stage runs after the response has been sent.
C30_ExactlyOneResponse ==
  /\ [](Len(Responses) <= 1)
  /\ [](Responses # <<>> => (pc = "done" /\ events[Len(events)].e = "response"))
  /\ [](pc = "done" => Len(Responses) = 1)
  /\ [][pc = "done" => UNCHANGED vars]_vars
  /\ <>(pc = "done")

\* A handler has answered after all four awaited calls settled.
C30_AnsweredAfterAllStages ==
  /\ pc = "done"
  /\ PredicateCalls # <<>>
  /\ \E outcome \in ClientOutcomes : ClientSettled(outcome)
  /\ Len(Responses) = 1


-----------------------------------------------------------------------------
(* Several requests in flight.  The host dispatches each request to its    *)
(* handler; the handlers interleave at their awaits.  Under this            *)
(* specification handlerFile, op, req, pc, identity, hasAccess and events   *)
(* hold one value per request, and config is the configuration holder that  *)
(* configureVortexLazy filled with an initialiser:                          *)
(*   [value, state: "unset" | "initialising" | "settled", runs, outcome].   *)

MaxInflight == 2
Inflight == 1..MaxInflight

\* The calls drawn: two get-by-group requests for different groups, a get
\* request and a JWT request.
ConcurrentCalls ==
  {[file |-> Part002, op |-> ByGroupOp,
    req |-> [method |-> "GET"] @@ ValidInput(ByGroupOp)],
   [file |-> Part002, op |-> ByGroupOp,
    req |-> [method |-> "GET"] @@
            [EmptyInput EXCEPT !.groupType = Str(<<" ", "b", "<">>), !.groupId = Str(<<"a">>)]],
   [file |-> Part002, op |-> GetOp, req |-> [method |-> "GET"] @@ ValidInput(GetOp)],
   [file |-> JwtTs, op |-> JwtOp, req |-> [method |-> "POST"] @@ ValidInput(JwtOp)]}

\* The configurations the initialiser may produce: authenticateUser set, and
\* canAccessInvitationsByGroup set or not.
ConcurrentConfigs ==
  {c \in Configs : c.authenticateUser /\ c.hooks \in {{}, {PredicateKey(ByGroupOp)}}}

\* What the hooks and the client answer to the requests in flight.
ConcurrentFaults == {Thrown("boom")}
ConcurrentIdentities == {PlainUser, AdminUser, Undefined}
ConcurrentClientOutcomes == ClientResults \cup ConcurrentFaults

\* Faulty variant of Local: the value kept in a variable of the module, which
\* the latest assignment of any request overwrites.
ModuleLevel(variable, r) == variable[1]

\* A parameter or `const` of a handler belongs to the invocation: the value
\* the request r reads is its own.
Local(variable, r) == variable[r]

\* Faulty variant of GetVortexConfigCalled: the initialiser started by every
\* caller that finds no configuration yet.
GetVortexConfigCalledUnguarded(holder) ==
  IF holder.state = "settled" THEN holder
  ELSE [holder EXCEPT !.state = "initialising", !.runs = @ + 1]

\* getVortexConfig() is called: the first caller starts the initialiser,
\* every later caller shares its promise.
GetVortexConfigCalled(holder) ==
  IF holder.state = "unset"
  THEN [holder EXCEPT !.state = "initialising", !.runs = @ + 1]
  ELSE holder

TakeFor(r, step, settled) ==
  /\ pc' = [pc EXCEPT ![r] = step.pc]
  /\ events' = [events EXCEPT ![r] = @ \o settled \o step.events]

ConcurrentInit ==
  /\ \E calls \in [Inflight -> ConcurrentCalls] :
       /\ handlerFile = [r \in Inflight |-> calls[r].file]
       /\ op = [r \in Inflight |-> calls[r].op]
       /\ req = [r \in Inflight |-> calls[r].req]
  /\ config \in {[value |-> c, state |-> "unset", runs |-> 0, outcome |-> NotYet] :
                   c \in ConcurrentConfigs}
  /\ pc = [r \in Inflight |-> "start"]
  /\ identity = [r \in Inflight |-> NotYet]
  /\ hasAccess = [r \in Inflight |-> NotYet]
  /\ events = [r \in Inflight |-> <<>>]

\* The handler of request r is called: method check, validation, then
\* getVortexConfig().
ConcurrentEntry(r) ==
  /\ pc[r] = "start"
  /\ LET b == BeforeConfig(handlerFile[r], op[r], Local(req, r))
     IN IF b.k = "respond"
        THEN /\ TakeFor(r, Answer(b.response), <<>>)
             /\ config' = config
        ELSE /\ TakeFor(r, Goto("getVortexConfig", <<CallEvent("getVortexConfig")>>), <<>>)
             /\ config' = GetVortexConfigCalled(config)
  /\ UNCHANGED <<handlerFile, op, req, identity, hasAccess>>

\* The initialiser given to configureVortexLazy returns or throws; the
\* outcome is kept.
InitialiserSettles ==
  /\ config.state = "initialising"
  /\ \E outcome \in {Returned} \cup ConcurrentFaults :
       config' = [config EXCEPT !.state = "settled", !.outcome = outcome]
  /\ UNCHANGED <<handlerFile, op, req, pc, identity, hasAccess, events>>

\* getVortexConfig() settles for request r, with what the initialiser
\* settled to.
ConcurrentConfigSettles(r) ==
  /\ pc[r] = "getVortexConfig"
  /\ config.state = "settled"
  /\ TakeFor(r, IF IsThrown(config.outcome) THEN Catch(op[r], config.outcome)
                ELSE IF op[r] = JwtOp THEN JwtAfterConfig(config.value)
                ELSE Goto("authenticateRequest", <<CallEvent("authenticateRequest")>>),
             <<SettledEvent(config.outcome)>>)
  /\ UNCHANGED <<handlerFile, op, req, config, identity, hasAccess>>

ConcurrentAuthenticateRequestSettles(r) ==
  /\ pc[r] = "authenticateRequest"
  /\ \E outcome \in ConcurrentIdentities \cup ConcurrentFaults :
       /\ identity' = [identity EXCEPT ![r] = outcome]
       /\ TakeFor(r, IF IsThrown(outcome) THEN Catch(op[r], outcome)
                     ELSE AccessGate(config.value, handlerFile[r], op[r], Local(req, r),
                                     Local(identity', r)),
                  <<SettledEvent(outcome)>>)
  /\ UNCHANGED <<handlerFile, op, req, config, hasAccess>>

ConcurrentPredicateSettles(r) ==
  /\ pc[r] = "predicate"
  /\ \E outcome \in {Bool(TRUE), Bool(FALSE)} \cup ConcurrentFaults :
       /\ hasAccess' = [hasAccess EXCEPT ![r] = outcome]
       /\ TakeFor(r, IF IsThrown(outcome) THEN Catch(op[r], outcome)
                     ELSE PredicateDecision(config.value, handlerFile[r], op[r],
                                            Local(req, r), Local(hasAccess', r)),
                  <<SettledEvent(outcome)>>)
  /\ UNCHANGED <<handlerFile, op, req, config, identity>>

ConcurrentClientSettles(r) ==
  /\ pc[r] = "client"
  /\ \E outcome \in ConcurrentClientOutcomes :
       TakeFor(r, IF IsThrown(outcome) THEN Catch(op[r], outcome)
                  ELSE Answer(createApiResponse(SuccessBody(op[r], outcome))),
               <<SettledEvent(outcome)>>)
  /\ UNCHANGED <<handlerFile, op, req, config, identity, hasAccess>>

ConcurrentAuthenticateUserSettles(r) ==
  /\ pc[r] = "authenticateUser"
  /\ \E outcome \in ConcurrentIdentities \cup ConcurrentFaults,
        jwt \in ConcurrentClientOutcomes :
       /\ identity' = [identity EXCEPT ![r] = outcome]
       /\ TakeFor(r, IF IsThrown(outcome) THEN Catch(op[r], outcome)
                     ELSE JwtAfterAuthentication(config.value, Local(identity', r), jwt),
                  <<SettledEvent(outcome)>>)
  /\ UNCHANGED <<handlerFile, op, req, config, hasAccess>>

ConcurrentNext ==
  \/ InitialiserSettles
  \/ \E r \in Inflight :
       \/ ConcurrentEntry(r)
       \/ ConcurrentConfigSettles(r)
       \/ ConcurrentAuthenticateRequestSettles(r)
       \/ ConcurrentPredicateSettles(r)
       \/ ConcurrentClientSettles(r)
       \/ ConcurrentAuthenticateUserSettles(r)

ConcurrentSpec == ConcurrentInit /\ [][ConcurrentNext]_vars


-----------------------------------------------------------------------------
\* Request r has invoked the identity resolver, a predicate or the client.
InvokedHookOrClient(r) ==
  \E i \in 1..Len(events[r]) :
    events[r][i].e \in {"authenticateRequest", "authenticateUser", "predicate", "client"}

\* Request r has called getVortexConfig() and gone on past it.
PastGetVortexConfig(r) ==
  \E i \in 1..Len(events[r]) :
    events[r][i].e = "getVortexConfig" /\ i < Len(events[r])

\* Request r is suspended in getVortexConfig().
AwaitsConfig(r) == pc[r] = "getVortexConfig"

\* C24: configuration resolution is single-flight and memoised.  When
\* several first requests arrive while the lazy initialiser has not yet
\* completed, the initialiser runs at most once, every request waits for it,
\* and no request invokes the identity resolver, a predicate or the external
\* client before the configuration has been resolved.
C24_SingleFlightConfiguration ==
  /\ config.runs <= 1
  /\ \A r \in Inflight :
       /\ PastGetVortexConfig(r) => config.state = "settled"
       /\ InvokedHookOrClient(r) => (config.state = "settled" /\ config.outcome = Returned)

\* Two requests are suspended in getVortexConfig() while the initialiser,
\* started once, has not completed.
C24_FirstRequestsWaiting ==
  /\ config.state = "initialising"
  /\ config.runs = 1
  /\ \E r, s \in Inflight : r # s /\ AwaitsConfig(r) /\ AwaitsConfig(s)


-----------------------------------------------------------------------------
\* The events of the kind given that request r has logged.
EventsOf(r, kind) == SelectSeq(events[r], LAMBDA x : x.e = kind)

\* The gate of request r allows, judged by what the hooks answered to r.
OwnGateAllows(r) ==
  IF Configured(config.value, PredicateKey(op[r]))
  THEN hasAccess[r] = Bool(TRUE)
  ELSE identity[r] \in Identities

\* The client arguments that follow from the input and the identity of r.
OwnArguments(r) ==
  IF op[r] = JwtOp THEN <<JwtParams(identity[r])>>
  ELSE AfterGate(handlerFile[r], op[r], req[r]).data

\* The client result that request r received, if any, is what it answered.
AnswersOwnResult(r) ==
  \A i \in 2..Len(events[r]) :
    (events[r][i - 1].e = "client" /\ events[r][i].e = "settled"
     /\ ~IsThrown(events[r][i].outcome)) =>
      EventsOf(r, "response") =
        <<createApiResponse(IF op[r] = JwtOp THEN [jwt |-> events[r][i].outcome]
                            ELSE SuccessBody(op[r], events[r][i].outcome))>>

\* C25: requests are independent under concurrency.  For any interleaving of
\* the suspension points of the requests in flight, each request's gate
\* decision, client call arguments and response follow from its own input,
\* the configuration and what the hooks and the client answered to it: no
\* request's predicate or client is called with another request's identity
\* or resource, and none answers with another's result.
C25_RequestsIndependent ==
  \A r \in Inflight :
    /\ \A i \in 1..Len(EventsOf(r, "predicate")) :
         LET call == EventsOf(r, "predicate")[i]
         IN /\ call.key = PredicateKey(op[r])
            /\ call.user = identity[r]
            /\ call.resource = BeforeConfig(handlerFile[r], op[r], req[r]).data
    /\ \A i \in 1..Len(EventsOf(r, "client")) :
         LET call == EventsOf(r, "client")[i]
         IN /\ call.apiKey = config.value.apiKey
            /\ call.args = OwnArguments(r)
            /\ op[r] # JwtOp => OwnGateAllows(r)
    /\ (op[r] # JwtOp /\ pc[r] = "done" /\ identity[r] # NotYet /\ ~IsThrown(identity[r])
        /\ ~IsThrown(hasAccess[r]) /\ ~OwnGateAllows(r)) =>
         /\ EventsOf(r, "client") = <<>>
         /\ Len(EventsOf(r, "response")) = 1
         /\ EventsOf(r, "response")[1].status = 403
    /\ AnswersOwnResult(r)

\* Two get-by-group requests for different groups, made by different
\* identities, have both called the client.
C25_TwoRequestsServed ==
  \E r, s \in Inflight :
    /\ r # s
    /\ op[r] = ByGroupOp /\ op[s] = ByGroupOp
    /\ req[r] # req[s]
    /\ identity[r] \in Identities /\ identity[s] \in Identities
    /\ identity[r] # identity[s]
    /\ EventsOf(r, "client") # <<>> /\ EventsOf(s, "client") # <<>>
    /\ EventsOf(r, "predicate") # <<>> /\ EventsOf(s, "predicate") # <<>>

====
